---- MODULE Spec2Model ----
(***************************************************************************)
(* Model of pkg/server/ingest.go: the HTTP ingestion handler of the        *)
(* profiling server.  ingestParamsFromRequest resolves the query           *)
(* parameters of a request into an ingestParams value and ingestHandler    *)
(* decodes the body with a scratch buffer borrowed from the shared buffer  *)
(* pool, submits the tree to the ingester and bumps the counters.          *)
(*                                                                         *)
(* Strings of the `sampleRate` parameter are sequences of one-character    *)
(* strings so that strconv.Atoi can be modelled character by character.    *)
(* Go's int is taken to be 64 bits wide; a magnitude is kept as four       *)
(* 16-bit limbs (least significant first) and a uint32 as a record of two  *)
(* 16-bit halves, because TLC evaluates integers in 32 bits.               *)
(***************************************************************************)
EXTENDS Integers, Sequences, FiniteSets, TLC

VARIABLES
    req,       \* per handler: the request it is serving
    ip,        \* per handler: its ingestParams
    pc,        \* per handler: where it is in ingestHandler
    tmpBuf,    \* per handler: the scratch buffer it got from the pool
    t,         \* per handler: the tree the decoder returned
    err,       \* per handler: the error of the last call
    resp,      \* per handler: the error response written, if any
    putInput,  \* per handler: the storage.PutInput it submitted, if any
    trace,     \* per handler: the calls it made on its collaborators
    pool,      \* bufferPool: how many times each buffer is in the pool
    stats,     \* the counters behind statsInc
    appStats,  \* the number of appStats.Add calls per application hash
    stored,    \* the ingester: writes accepted per (spy name, application)
    started    \* number of requests that have arrived

vars == <<req, ip, pc, tmpBuf, t, err, resp, putInput, trace, pool, stats,
          appStats, stored, started>>

(***************************************************************************)
(* Bounds of the model.                                                    *)
(***************************************************************************)
\* number of handler goroutines that may run at the same time
NumProcs == 2
\* number of requests the concurrent specification lets arrive
MaxRequests == 3
\* longest `sampleRate` string drawn from SrAlphabet
MaxLen == 2

Procs == 1 .. NumProcs
\* buffers that can be alive at one time: a handler refers to at most one,
\* so an unreferenced one is always left for the pool to hand out
Bufs == 1 .. NumProcs
NoBuf == 0

(***************************************************************************)
(* strconv.Atoi and the conversion to uint32 (lines 126 and 131).          *)
(***************************************************************************)
Limb == 2 ^ 16

DigitChars == {"0", "1", "2", "3", "4", "5", "6", "7", "8", "9"}

DigitVal(c) ==
    CASE c = "0" -> 0 [] c = "1" -> 1 [] c = "2" -> 2 [] c = "3" -> 3
      [] c = "4" -> 4 [] c = "5" -> 5 [] c = "6" -> 6 [] c = "7" -> 7
      [] c = "8" -> 8 [] c = "9" -> 9

ZeroMag == <<0, 0, 0, 0>>

\* m * 10 + d over four 16-bit limbs; carry is what does not fit in 64 bits
MulAdd(m, d) ==
    LET t0 == m[1] * 10 + d
        t1 == m[2] * 10 + (t0 \div Limb)
        t2 == m[3] * 10 + (t1 \div Limb)
        t3 == m[4] * 10 + (t2 \div Limb)
    IN  [mag   |-> <<t0 % Limb, t1 % Limb, t2 % Limb, t3 % Limb>>,
         carry |-> t3 \div Limb]

\* strconv.ParseUint(s, 10, 64) digit by digit from the magnitude acc: the
\* first character that is not a digit is a syntax error, the first step
\* that does not fit in 64 bits a range error
RECURSIVE ParseUint(_, _)
ParseUint(s, acc) ==
    IF s = <<>> THEN [mag |-> acc, syntax |-> FALSE, range |-> FALSE]
    ELSE IF Head(s) \notin DigitChars
         THEN [mag |-> ZeroMag, syntax |-> TRUE, range |-> FALSE]
         ELSE LET r == MulAdd(acc, DigitVal(Head(s)))
              IN  IF r.carry > 0
                  THEN [mag |-> ZeroMag, syntax |-> FALSE, range |-> TRUE]
                  ELSE ParseUint(Tail(s), r.mag)

\* strconv.Atoi on a 64-bit platform: an optional sign, then at least one
\* decimal digit and nothing else; values outside [-2^63, 2^63-1] are errors
Atoi(s) ==
    LET signed == s # <<>> /\ Head(s) \in {"+", "-"}
        neg    == s # <<>> /\ Head(s) = "-"
        digits == IF signed THEN Tail(s) ELSE s
        u      == ParseUint(digits, ZeroMag)
        top    == u.mag[4] >= 2 ^ 15
        isMin  == u.mag = <<0, 0, 0, 2 ^ 15>>
        over   == u.range \/ (top /\ ~(neg /\ isMin))
    IN  IF digits = <<>> \/ u.syntax \/ over
        THEN [err |-> TRUE, neg |-> FALSE, mag |-> ZeroMag]
        ELSE [err |-> FALSE, neg |-> neg /\ u.mag # ZeroMag, mag |-> u.mag]

\* uint32(n) for the int n = (neg, mag): the low 32 bits of the two's
\* complement representation
ToUint32(n) ==
    LET lo == n.mag[1]
        hi == n.mag[2]
    IN  IF ~n.neg THEN [hi |-> hi, lo |-> lo]
        ELSE [hi |-> (Limb - hi - (IF lo = 0 THEN 0 ELSE 1)) % Limb,
              lo |-> (Limb - lo) % Limb]

\* a small non-negative number as a uint32
U32(n) == [hi |-> 0, lo |-> n]

\* types.DefaultSampleRate
DefaultSampleRate == 100

(***************************************************************************)
(* The key parser and the application hash, collaborators of the handler.  *)
(***************************************************************************)
\* `name` values a request may carry: absent, two well-formed keys, and one
\* the key parser rejects
Names == {"", "app.name", "web{env=prod}", "web{env"}

\* segment.ParseKey: the parsed key, or an error for an empty or malformed
\* name
ParseKey(name) ==
    CASE name = "app.name"      -> [err |-> FALSE, appName |-> "app.name"]
      [] name = "web{env=prod}" -> [err |-> FALSE, appName |-> "web"]
      [] OTHER                  -> [err |-> TRUE, appName |-> ""]

AppNames == {"app.name", "web"}

\* hashString of an application name
hashString(app) ==
    CASE app = "app.name" -> 11
      [] app = "web"      -> 23
      [] OTHER            -> 0

AppHashes == {hashString(a) : a \in AppNames}

(***************************************************************************)
(* Requests.                                                               *)
(***************************************************************************)
Formats == {"", "tree", "trie", "lines", "json"}

ContentTypes == {"", "binary/octet-stream+tree", "binary/octet-stream+trie",
                 "text/plain"}

SpyNames == {"", "gospy"}

SrAlphabet == {"+", "-", "0", "7", "x"}

\* every string over SrAlphabet of length at most n
SeqsUpTo(n) == UNION {[1 .. k -> SrAlphabet] : k \in 0 .. n}

\* sample rates around the edges of uint32 and of the 64-bit int
SrEdges ==
    { <<"1", "0", "0">>,
      <<"4", "2", "9", "4", "9", "6", "7", "2", "9", "5">>,
      <<"4", "2", "9", "4", "9", "6", "7", "2", "9", "6">>,
      <<"4", "2", "9", "4", "9", "6", "7", "3", "9", "6">>,
      <<"-", "4", "2", "9", "4", "9", "6", "7", "2", "9", "6">>,
      <<"9", "2", "2", "3", "3", "7", "2", "0", "3", "6", "8", "5", "4", "7",
        "7", "5", "8", "0", "7">>,
      <<"9", "2", "2", "3", "3", "7", "2", "0", "3", "6", "8", "5", "4", "7",
        "7", "5", "8", "0", "8">>,
      <<"-", "9", "2", "2", "3", "3", "7", "2", "0", "3", "6", "8", "5", "4",
        "7", "7", "5", "8", "0", "8">>,
      <<"1", "8", "4", "4", "6", "7", "4", "4", "0", "7", "3", "7", "0", "9",
        "5", "5", "1", "6", "1", "6">> }

SampleRates == SeqsUpTo(MaxLen) \cup SrEdges

\* the query parameters and the header of a request the handler reads
Request(f, c, sr, n, sn, fr, un, u, a) ==
    [format |-> f, contentType |-> c, sampleRate |-> sr, name |-> n,
     spyName |-> sn, from |-> fr, until |-> un, units |-> u,
     aggregationType |-> a]

\* requests of the sequential specification: every combination of the
\* parameters the decoder, the sample rate and the key depend on, and every
\* combination of the free-form ones
AllRequests ==
    { Request(f, c, sr, n, sn, "", "", "", "") :
        f \in Formats, c \in ContentTypes, sr \in SampleRates, n \in Names,
        sn \in SpyNames }
    \cup
    { Request("", "", <<>>, "app.name", "", fr, un, u, a) :
        fr \in {"", "now-1h"}, un \in {"", "now"}, u \in {"", "bytes"},
        a \in {"", "average"} }

\* requests of the concurrent specification
ConcRequests ==
    { Request("lines", "", <<>>, "app.name", "", "", "", "", ""),
      Request("", "binary/octet-stream+trie", <<"0">>, "web{env=prod}",
              "gospy", "", "", "", ""),
      Request("trie", "", <<"7">>, "", "gospy", "", "", "", "") }

(***************************************************************************)
(* ingestParamsFromRequest (lines 98-162).                                 *)
(***************************************************************************)
\* an error value: the call it comes from and the field name it is wrapped
\* with (fmt.Errorf("name: %w", err))
Error(field, cause) == [nil |-> FALSE, field |-> field, cause |-> cause]
NoErr == [nil |-> TRUE, field |-> "", cause |-> ""]
NoKey == [nil |-> TRUE, appName |-> ""]
NoTree == "nil"

\* the zero value of ingestParams
ZeroParams ==
    [parserFunc |-> [wrap |-> "nil", f |-> "nil"], storageKey |-> NoKey,
     spyName |-> "", sampleRate |-> U32(0), units |-> "",
     aggregationType |-> "", from |-> "", until |-> ""]

\* faulty variant: the `format` parameter is consulted before the header
SelectParserFormatFirst(format, contentType) ==
    IF format = "tree"
    THEN [wrap |-> "wrapConvertFunctionReader", f |-> "tree.DeserializeV1NoDict"]
    ELSE IF format = "trie"
    THEN [wrap |-> "wrapConvertFunctionBuf", f |-> "convert.ParseTrieBuf"]
    ELSE IF format = "lines"
    THEN [wrap |-> "wrapConvertFunction", f |-> "convert.ParseIndividualLines"]
    ELSE IF contentType = "binary/octet-stream+tree"
    THEN [wrap |-> "wrapConvertFunctionReader", f |-> "tree.DeserializeV1NoDict"]
    ELSE IF contentType = "binary/octet-stream+trie"
    THEN [wrap |-> "wrapConvertFunctionBuf", f |-> "convert.ParseTrieBuf"]
    ELSE [wrap |-> "wrapConvertFunction", f |-> "convert.ParseGroups"]

\* faulty variant: the trie case is tried before the tree case
SelectParserTrieFirst(format, contentType) ==
    IF format = "trie" \/ contentType = "binary/octet-stream+trie"
    THEN [wrap |-> "wrapConvertFunctionBuf", f |-> "convert.ParseTrieBuf"]
    ELSE IF format = "tree" \/ contentType = "binary/octet-stream+tree"
    THEN [wrap |-> "wrapConvertFunctionReader", f |-> "tree.DeserializeV1NoDict"]
    ELSE IF format = "lines"
    THEN [wrap |-> "wrapConvertFunction", f |-> "convert.ParseIndividualLines"]
    ELSE [wrap |-> "wrapConvertFunction", f |-> "convert.ParseGroups"]

\* the switch of lines 102-111: the first case that matches wins
SelectParser(format, contentType) ==
    IF format = "tree" \/ contentType = "binary/octet-stream+tree"
    THEN [wrap |-> "wrapConvertFunctionReader", f |-> "tree.DeserializeV1NoDict"]
    ELSE IF format = "trie" \/ contentType = "binary/octet-stream+trie"
    THEN [wrap |-> "wrapConvertFunctionBuf", f |-> "convert.ParseTrieBuf"]
    ELSE IF format = "lines"
    THEN [wrap |-> "wrapConvertFunction", f |-> "convert.ParseIndividualLines"]
    ELSE [wrap |-> "wrapConvertFunction", f |-> "convert.ParseGroups"]

\* lines 113-123: attime.Parse of a non-empty expression, else time.Now()
ResolveTime(qt) == IF qt # "" THEN "attime.Parse(" \o qt \o ")" ELSE "time.Now()"

\* faulty variant: a sample rate that does not parse leaves the field at its
\* zero value
ResolveSampleRateNoDefault(sr) ==
    IF sr # <<>>
    THEN LET n == Atoi(sr)
         IN  IF n.err THEN U32(0) ELSE ToUint32(n)
    ELSE U32(DefaultSampleRate)

\* lines 125-135
ResolveSampleRate(sr) ==
    IF sr # <<>>
    THEN LET n == Atoi(sr)
         IN  IF n.err THEN U32(DefaultSampleRate) ELSE ToUint32(n)
    ELSE U32(DefaultSampleRate)

\* lines 137-154: a literal default for an empty parameter
OrDefault(v, d) == IF v # "" THEN v ELSE d

\* the whole resolver: the ingestParams it leaves behind and the error it
\* returns
ingestParamsFromRequest(r) ==
    LET k == ParseKey(r.name)
        p == [parserFunc      |-> SelectParser(r.format, r.contentType),
              from            |-> ResolveTime(r.from),
              until           |-> ResolveTime(r.until),
              sampleRate      |-> ResolveSampleRate(r.sampleRate),
              spyName         |-> OrDefault(r.spyName, "unknown"),
              units           |-> OrDefault(r.units, "samples"),
              aggregationType |-> OrDefault(r.aggregationType, "sum"),
              storageKey      |-> IF k.err THEN NoKey
                                  ELSE [nil |-> FALSE, appName |-> k.appName]]
    IN  [ip |-> p, err |-> IF k.err THEN Error("name", "segment.ParseKey") ELSE NoErr]

(***************************************************************************)
(* The parser adapters (lines 38-58).                                      *)
(***************************************************************************)
\* what parserFunc returns when the decoder succeeds (ok) or fails: the
\* callback adapters return the tree they allocated whatever the decoder
\* says, the reader adapter returns what the decoder returns
ParserResult(parserFunc, ok) ==
    IF parserFunc.wrap = "wrapConvertFunctionReader"
    THEN [t |-> IF ok THEN "tree" ELSE NoTree,
          err |-> IF ok THEN NoErr ELSE Error("", parserFunc.f)]
    ELSE [t |-> IF ok THEN "tree" ELSE "partial tree",
          err |-> IF ok THEN NoErr ELSE Error("", parserFunc.f)]

(***************************************************************************)
(* ingestHandler (lines 60-96), one action per step between two accesses   *)
(* to state the handlers share.                                            *)
(***************************************************************************)
StatusUnprocessableEntity == 422

NoResp == [writer |-> "none", status |-> 0]
NoInput == [nil |-> TRUE]

StatKeys == {"ingest"} \cup {"ingest:" \o OrDefault(sn, "unknown") : sn \in SpyNames}
StoredKeys == {OrDefault(sn, "unknown") : sn \in SpyNames} \X AppNames

Init ==
    /\ req = [p \in Procs |-> Request("", "", <<>>, "", "", "", "", "", "")]
    /\ ip = [p \in Procs |-> ZeroParams]
    /\ pc = [p \in Procs |-> "idle"]
    /\ tmpBuf = [p \in Procs |-> NoBuf]
    /\ t = [p \in Procs |-> NoTree]
    /\ err = [p \in Procs |-> NoErr]
    /\ resp = [p \in Procs |-> NoResp]
    /\ putInput = [p \in Procs |-> NoInput]
    /\ trace = [p \in Procs |-> <<>>]
    /\ pool = [b \in Bufs |-> 0]
    /\ stats = [k \in StatKeys |-> 0]
    /\ appStats = [h \in AppHashes |-> 0]
    /\ stored = [k \in StoredKeys |-> 0]
    /\ started = 0

\* a request arrives and the server runs ingestHandler for it
Start(p) ==
    /\ pc[p] \in {"idle", "done"}
    /\ started < MaxRequests
    /\ \E r \in ConcRequests : req' = [req EXCEPT ![p] = r]
    /\ started' = started + 1
    /\ ip' = [ip EXCEPT ![p] = ZeroParams]
    /\ pc' = [pc EXCEPT ![p] = "params"]
    /\ tmpBuf' = [tmpBuf EXCEPT ![p] = NoBuf]
    /\ t' = [t EXCEPT ![p] = NoTree]
    /\ err' = [err EXCEPT ![p] = NoErr]
    /\ resp' = [resp EXCEPT ![p] = NoResp]
    /\ putInput' = [putInput EXCEPT ![p] = NoInput]
    /\ trace' = [trace EXCEPT ![p] = <<>>]
    /\ UNCHANGED <<pool, stats, appStats, stored>>

\* faulty variant: the invalid-parameter branch lacks its return
ParamsNoReturn(p) ==
    /\ pc[p] = "params"
    /\ LET r == ingestParamsFromRequest(req[p])
       IN  /\ ip' = [ip EXCEPT ![p] = r.ip]
           /\ err' = [err EXCEPT ![p] = r.err]
           /\ trace' = [trace EXCEPT ![p] = Append(@, "ingestParamsFromRequest")]
           /\ resp' = IF r.err # NoErr
                      THEN [resp EXCEPT ![p] =
                              [writer |-> "writeInvalidParameterError", status |-> 0]]
                      ELSE resp
           /\ pc' = [pc EXCEPT ![p] = "get"]
    /\ UNCHANGED <<req, tmpBuf, t, putInput, pool, stats, appStats, stored,
                   started>>

\* lines 61-65
Params(p) ==
    /\ pc[p] = "params"
    /\ LET r == ingestParamsFromRequest(req[p])
       IN  /\ ip' = [ip EXCEPT ![p] = r.ip]
           /\ err' = [err EXCEPT ![p] = r.err]
           /\ trace' = [trace EXCEPT ![p] = Append(@, "ingestParamsFromRequest")]
           /\ IF r.err # NoErr
              THEN /\ resp' = [resp EXCEPT ![p] =
                         [writer |-> "writeInvalidParameterError", status |-> 0]]
                   /\ pc' = [pc EXCEPT ![p] = "done"]
              ELSE /\ resp' = resp
                   /\ pc' = [pc EXCEPT ![p] = "get"]
    /\ UNCHANGED <<req, tmpBuf, t, putInput, pool, stats, appStats, stored,
                   started>>

\* buffers that are neither in the pool nor referred to by a running handler
Unused ==
    {b \in Bufs : /\ pool[b] = 0
                  /\ \A q \in Procs :
                        pc[q] \notin {"idle", "done"} => tmpBuf[q] # b}

\* line 68: the pool hands out any buffer it holds, or allocates a new one;
\* which unused identity a new buffer gets makes no difference, so it gets
\* the least
Get(p) ==
    /\ pc[p] = "get"
    /\ \E b \in Bufs :
          /\ \/ /\ pool[b] > 0
                /\ pool' = [pool EXCEPT ![b] = @ - 1]
             \/ /\ b \in Unused
                /\ \A c \in Unused : b <= c
                /\ pool' = pool
          /\ tmpBuf' = [tmpBuf EXCEPT ![p] = b]
    /\ trace' = [trace EXCEPT ![p] = Append(@, "bufferPool.Get")]
    /\ pc' = [pc EXCEPT ![p] = "parse"]
    /\ UNCHANGED <<req, ip, t, err, resp, putInput, stats, appStats, stored,
                   started>>

\* line 69: the selected decoder runs on the body with the scratch buffer
Parse(p) ==
    /\ pc[p] = "parse"
    /\ \E ok \in BOOLEAN :
          LET r == ParserResult(ip[p].parserFunc, ok)
          IN  /\ t' = [t EXCEPT ![p] = r.t]
              /\ err' = [err EXCEPT ![p] = r.err]
    /\ trace' = [trace EXCEPT ![p] = Append(@, "parserFunc")]
    /\ pc' = [pc EXCEPT ![p] = "putbuf"]
    /\ UNCHANGED <<req, ip, tmpBuf, resp, putInput, pool, stats, appStats,
                   stored, started>>

\* faulty variant: the decode error is answered before the buffer is released
PutBufSkipOnError(p) ==
    /\ pc[p] = "putbuf"
    /\ IF err[p] # NoErr
       THEN /\ pool' = pool
            /\ trace' = trace
            /\ resp' = [resp EXCEPT ![p] =
                  [writer |-> "writeError", status |-> StatusUnprocessableEntity]]
            /\ pc' = [pc EXCEPT ![p] = "done"]
       ELSE /\ pool' = [pool EXCEPT ![tmpBuf[p]] = @ + 1]
            /\ trace' = [trace EXCEPT ![p] = Append(@, "bufferPool.Put")]
            /\ resp' = resp
            /\ pc' = [pc EXCEPT ![p] = "ingest"]
    /\ UNCHANGED <<req, ip, tmpBuf, t, err, putInput, stats, appStats, stored,
                   started>>

\* faulty variant: the decode error is not looked at
PutBufIgnoreErr(p) ==
    /\ pc[p] = "putbuf"
    /\ pool' = [pool EXCEPT ![tmpBuf[p]] = @ + 1]
    /\ trace' = [trace EXCEPT ![p] = Append(@, "bufferPool.Put")]
    /\ pc' = [pc EXCEPT ![p] = "ingest"]
    /\ UNCHANGED <<req, ip, tmpBuf, t, err, resp, putInput, stats, appStats,
                   stored, started>>

\* faulty variant: the buffer is released on the decode-error branch only
PutBufErrorOnly(p) ==
    /\ pc[p] = "putbuf"
    /\ IF err[p] # NoErr
       THEN /\ pool' = [pool EXCEPT ![tmpBuf[p]] = @ + 1]
            /\ trace' = [trace EXCEPT ![p] = Append(@, "bufferPool.Put")]
            /\ resp' = [resp EXCEPT ![p] =
                  [writer |-> "writeError", status |-> StatusUnprocessableEntity]]
            /\ pc' = [pc EXCEPT ![p] = "done"]
       ELSE /\ pool' = pool
            /\ trace' = trace
            /\ resp' = resp
            /\ pc' = [pc EXCEPT ![p] = "ingest"]
    /\ UNCHANGED <<req, ip, tmpBuf, t, err, putInput, stats, appStats, stored,
                   started>>

\* faulty variant: the buffer is released twice
PutBufTwice(p) ==
    /\ pc[p] = "putbuf"
    /\ pool' = [pool EXCEPT ![tmpBuf[p]] = @ + 2]
    /\ trace' = [trace EXCEPT ![p] = @ \o <<"bufferPool.Put", "bufferPool.Put">>]
    /\ IF err[p] # NoErr
       THEN /\ resp' = [resp EXCEPT ![p] =
                  [writer |-> "writeError", status |-> StatusUnprocessableEntity]]
            /\ pc' = [pc EXCEPT ![p] = "done"]
       ELSE /\ resp' = resp
            /\ pc' = [pc EXCEPT ![p] = "ingest"]
    /\ UNCHANGED <<req, ip, tmpBuf, t, err, putInput, stats, appStats, stored,
                   started>>

\* lines 70-75: the buffer goes back to the pool, then the decode error is
\* answered
PutBuf(p) ==
    /\ pc[p] = "putbuf"
    /\ pool' = [pool EXCEPT ![tmpBuf[p]] = @ + 1]
    /\ trace' = [trace EXCEPT ![p] = Append(@, "bufferPool.Put")]
    /\ IF err[p] # NoErr
       THEN /\ resp' = [resp EXCEPT ![p] =
                  [writer |-> "writeError", status |-> StatusUnprocessableEntity]]
            /\ pc' = [pc EXCEPT ![p] = "done"]
       ELSE /\ resp' = resp
            /\ pc' = [pc EXCEPT ![p] = "ingest"]
    /\ UNCHANGED <<req, ip, tmpBuf, t, err, putInput, stats, appStats, stored,
                   started>>

\* lines 77-86: the write request built from the parameters and the tree
PutInputOf(params, tree) ==
    [nil |-> FALSE, StartTime |-> params.from, EndTime |-> params.until,
     Key |-> params.storageKey, Val |-> tree, SpyName |-> params.spyName,
     SampleRate |-> params.sampleRate, Units |-> params.units,
     AggregationType |-> params.aggregationType]

\* faulty variant: the storage-error branch lacks its return
IngesterPutNoReturn(p) ==
    /\ pc[p] = "ingest"
    /\ putInput' = [putInput EXCEPT ![p] = PutInputOf(ip[p], t[p])]
    /\ trace' = [trace EXCEPT ![p] = Append(@, "ingester.Put")]
    /\ \E ok \in BOOLEAN :
          IF ok
          THEN /\ stored' = [stored EXCEPT
                     ![<<ip[p].spyName, ip[p].storageKey.appName>>] = @ + 1]
               /\ err' = [err EXCEPT ![p] = NoErr]
               /\ resp' = resp
          ELSE /\ stored' = stored
               /\ err' = [err EXCEPT ![p] = Error("", "ingester.Put")]
               /\ resp' = [resp EXCEPT ![p] =
                     [writer |-> "writeInternalServerError", status |-> 0]]
    /\ pc' = [pc EXCEPT ![p] = "stats"]
    /\ UNCHANGED <<req, ip, tmpBuf, t, pool, stats, appStats, started>>

\* lines 77-90: ingester.Put accepts the write or fails
IngesterPut(p) ==
    /\ pc[p] = "ingest"
    /\ putInput' = [putInput EXCEPT ![p] = PutInputOf(ip[p], t[p])]
    /\ trace' = [trace EXCEPT ![p] = Append(@, "ingester.Put")]
    /\ \E ok \in BOOLEAN :
          IF ok
          THEN /\ stored' = [stored EXCEPT
                     ![<<ip[p].spyName, ip[p].storageKey.appName>>] = @ + 1]
               /\ err' = [err EXCEPT ![p] = NoErr]
               /\ resp' = resp
               /\ pc' = [pc EXCEPT ![p] = "stats"]
          ELSE /\ stored' = stored
               /\ err' = [err EXCEPT ![p] = Error("", "ingester.Put")]
               /\ resp' = [resp EXCEPT ![p] =
                     [writer |-> "writeInternalServerError", status |-> 0]]
               /\ pc' = [pc EXCEPT ![p] = "done"]
    /\ UNCHANGED <<req, ip, tmpBuf, t, pool, stats, appStats, started>>

\* line 92: the global counter; each of the three counter calls is a step
\* of its own, so other handlers may run between them
StatsIncIngest(p) ==
    /\ pc[p] = "stats"
    /\ stats' = [stats EXCEPT !["ingest"] = @ + 1]
    /\ trace' = [trace EXCEPT ![p] = Append(@, "statsInc(ingest)")]
    /\ pc' = [pc EXCEPT ![p] = "stats_spy"]
    /\ UNCHANGED <<req, ip, tmpBuf, t, err, resp, putInput, pool, appStats,
                   stored, started>>

\* line 93: the counter of the agent
StatsIncSpy(p) ==
    /\ pc[p] = "stats_spy"
    /\ stats' = [stats EXCEPT !["ingest:" \o ip[p].spyName] = @ + 1]
    /\ trace' = [trace EXCEPT ![p] = Append(@, "statsInc(ingest:spyName)")]
    /\ pc' = [pc EXCEPT ![p] = "stats_app"]
    /\ UNCHANGED <<req, ip, tmpBuf, t, err, resp, putInput, pool, appStats,
                   stored, started>>

\* lines 94-95: the application hash is added to appStats and the handler
\* returns
AppStatsAdd(p) ==
    /\ pc[p] = "stats_app"
    /\ appStats' = [appStats EXCEPT
          ![hashString(ip[p].storageKey.appName)] = @ + 1]
    /\ trace' = [trace EXCEPT ![p] = Append(@, "appStats.Add")]
    /\ pc' = [pc EXCEPT ![p] = "done"]
    /\ UNCHANGED <<req, ip, tmpBuf, t, err, resp, putInput, pool, stats,
                   stored, started>>

\* the steps of one handler
Step(p) ==
    \/ Params(p)
    \/ Get(p)
    \/ Parse(p)
    \/ PutBuf(p)
    \/ IngesterPut(p)
    \/ StatsIncIngest(p)
    \/ StatsIncSpy(p)
    \/ AppStatsAdd(p)

\* handlers serving requests concurrently
Next == \E p \in Procs : Start(p) \/ Step(p)

Spec == Init /\ [][Next]_vars

\* one handler serving one request, drawn from AllRequests
InitParams ==
    /\ \E r \in AllRequests :
          req = [p \in Procs |->
                   IF p = 1 THEN r
                   ELSE Request("", "", <<>>, "", "", "", "", "", "")]
    /\ ip = [p \in Procs |-> ZeroParams]
    /\ pc = [p \in Procs |-> IF p = 1 THEN "params" ELSE "idle"]
    /\ tmpBuf = [p \in Procs |-> NoBuf]
    /\ t = [p \in Procs |-> NoTree]
    /\ err = [p \in Procs |-> NoErr]
    /\ resp = [p \in Procs |-> NoResp]
    /\ putInput = [p \in Procs |-> NoInput]
    /\ trace = [p \in Procs |-> <<>>]
    /\ pool = [b \in Bufs |-> 0]
    /\ stats = [k \in StatKeys |-> 0]
    /\ appStats = [h \in AppHashes |-> 0]
    /\ stored = [k \in StoredKeys |-> 0]
    /\ started = 1

NextParams == \E p \in Procs : Step(p)

SpecParams == InitParams /\ [][NextParams]_vars

(***************************************************************************)
(* Properties.                                                             *)
(***************************************************************************)
\* number of times call c occurs in the sequence tr
Count(tr, c) == Cardinality({i \in 1 .. Len(tr) : tr[i] = c})

IsPrefix(a, b) == Len(a) <= Len(b) /\ \A i \in 1 .. Len(a) : a[i] = b[i]

\* the handler has returned
Returned(p) == pc[p] = "done"

\* the handler has left ingestParamsFromRequest
Resolved(p) == "ingestParamsFromRequest" \in {trace[p][i] : i \in 1 .. Len(trace[p])}

Called(p, c) == Count(trace[p], c) > 0

Gets(p) == Count(trace[p], "bufferPool.Get")
Puts(p) == Count(trace[p], "bufferPool.Put")

CounterCalls == {"statsInc(ingest)", "statsInc(ingest:spyName)", "appStats.Add"}

\* the decoder returned an error to this handler
DecodeFailed(p) ==
    /\ Called(p, "parserFunc")
    /\ ~err[p].nil
    /\ err[p].cause = ip[p].parserFunc.f

\* ingester.Put returned nil / an error to this handler
PutSucceeded(p) == Called(p, "ingester.Put") /\ err[p].nil
PutFailed(p) == Called(p, "ingester.Put") /\ ~err[p].nil /\ err[p].cause = "ingester.Put"

\* C1: a handler never releases more often than it acquired, acquires at
\* most once, and when it has returned it has released the buffer it
\* acquired exactly once, whichever way it returned.
C1_ReleasedExactlyOnce ==
    \A p \in Procs :
        /\ Gets(p) <= 1
        /\ Puts(p) <= Gets(p)
        /\ Returned(p) => Puts(p) = Gets(p)

\* one handler has returned on a decode failure and another on a storage
\* failure, each after acquiring a buffer
C1_Witness ==
    \E p, q \in Procs :
        /\ Returned(p) /\ DecodeFailed(p) /\ Gets(p) = 1
        /\ Returned(q) /\ PutFailed(q) /\ Gets(q) = 1

\* C2: for an empty name, or one the key parser rejects, the resolver
\* returns an error wrapped with the field `name`, the handler answers with
\* the invalid-parameter response and returns at once: no buffer, no decode,
\* no ingester.Put, no counter.
C2_BadNameRejected ==
    \A p \in Procs :
        (Resolved(p) /\ (req[p].name = "" \/ ParseKey(req[p].name).err)) =>
            /\ Returned(p)
            /\ ~err[p].nil /\ err[p].field = "name"
            /\ resp[p].writer = "writeInvalidParameterError"
            /\ trace[p] = <<"ingestParamsFromRequest">>
            /\ tmpBuf[p] = NoBuf
            /\ putInput[p] = NoInput
            /\ \A b \in Bufs : pool[b] = 0
            /\ \A k \in StatKeys : stats[k] = 0
            /\ \A h \in AppHashes : appStats[h] = 0

\* a request without a name has been answered
C2_Witness ==
    \E p \in Procs :
        /\ req[p].name = ""
        /\ Returned(p)
        /\ resp[p].writer = "writeInvalidParameterError"

\* C3: once the buffer step is over for a request whose decode failed, the
\* handler has returned with a 422 written by writeError, the buffer has
\* been released (it is in the pool, or the pool has handed it to another
\* handler since), and neither ingester.Put nor any counter was called; the
\* tree returned with the error was not submitted.
C3_DecodeFailure ==
    \A p \in Procs :
        (DecodeFailed(p) /\ pc[p] # "putbuf") =>
            /\ Returned(p)
            /\ resp[p] = [writer |-> "writeError", status |-> 422]
            /\ Puts(p) = 1
            /\ pool[tmpBuf[p]] > 0 \/ \E q \in Procs : q # p /\ tmpBuf[q] = tmpBuf[p]
            /\ ~Called(p, "ingester.Put")
            /\ putInput[p] = NoInput
            /\ \A c \in CounterCalls : ~Called(p, c)

\* a callback decoder failed, leaving a partly filled tree behind
C3_Witness ==
    \E p \in Procs :
        /\ DecodeFailed(p)
        /\ Returned(p)
        /\ t[p] = "partial tree"

\* handlers past ingester.Put that have not yet made the counter call of
\* line 92, of line 93, of line 95
BeforeIngestInc == {p \in Procs : pc[p] = "stats"}
BeforeSpyInc == {p \in Procs : pc[p] \in {"stats", "stats_spy"}}
BeforeAppAdd == {p \in Procs : pc[p] \in {"stats", "stats_spy", "stats_app"}}

RECURSIVE SumStored(_)
SumStored(keys) ==
    IF keys = {} THEN 0
    ELSE LET k == CHOOSE x \in keys : TRUE
         IN  stored[k] + SumStored(keys \ {k})

\* C4: every counter equals the number of accepted writes it stands for,
\* less those whose handler has yet to bump it; and a handler that has
\* returned has bumped each of the three counters once if ingester.Put
\* succeeded and not at all otherwise, answering a failed Put with the
\* internal-server-error response.
C4_CountersIffPutSucceeded ==
    /\ stats["ingest"] + Cardinality(BeforeIngestInc) = SumStored(StoredKeys)
    /\ \A sn \in {k[1] : k \in StoredKeys} :
          stats["ingest:" \o sn]
            + Cardinality({p \in BeforeSpyInc : ip[p].spyName = sn})
            = SumStored({k \in StoredKeys : k[1] = sn})
    /\ \A h \in AppHashes :
          appStats[h]
            + Cardinality({p \in BeforeAppAdd : hashString(ip[p].storageKey.appName) = h})
            = SumStored({k \in StoredKeys : hashString(k[2]) = h})
    /\ \A p \in Procs :
          Returned(p) =>
            /\ \A c \in CounterCalls :
                  Count(trace[p], c) = IF PutSucceeded(p) THEN 1 ELSE 0
            /\ PutFailed(p) => resp[p].writer = "writeInternalServerError"

\* one handler has returned after a successful Put and a failed one is
\* behind it, an earlier request having bumped all three counters, while
\* another handler has bumped the global counter only
C4_Witness ==
    \E p, q \in Procs :
        /\ Returned(p) /\ PutFailed(p)
        /\ pc[q] = "stats_spy" /\ PutSucceeded(q)
        /\ stats["ingest"] = 2
        /\ \E h \in AppHashes : appStats[h] = 1

TreeDecoder == "tree.DeserializeV1NoDict"
TrieDecoder == "convert.ParseTrieBuf"
LineDecoder == "convert.ParseIndividualLines"
GroupDecoder == "convert.ParseGroups"

CtTree == "binary/octet-stream+tree"
CtTrie == "binary/octet-stream+trie"

Decoder(p) == ip[p].parserFunc.f

\* C5: the decoder a resolved request carries is the one of the first rule
\* its `format` and Content-Type match: tree, then trie, then lines, then
\* the group decoder for everything else.
C5_FirstMatchWins ==
    \A p \in Procs :
        Resolved(p) =>
            LET f == req[p].format
                c == req[p].contentType
                rule1 == f = "tree" \/ c = CtTree
                rule2 == f = "trie" \/ c = CtTrie
                rule3 == f = "lines"
            IN  /\ rule1 => Decoder(p) = TreeDecoder
                /\ (~rule1 /\ rule2) => Decoder(p) = TrieDecoder
                /\ (~rule1 /\ ~rule2 /\ rule3) => Decoder(p) = LineDecoder
                /\ (~rule1 /\ ~rule2 /\ ~rule3) => Decoder(p) = GroupDecoder
                /\ (f \in {"", "json"} /\ c \in {"", "text/plain"})
                      => Decoder(p) = GroupDecoder

\* format=lines together with the trie content type: rule 2 wins over rule 3
C5_Witness ==
    \E p \in Procs :
        /\ Resolved(p)
        /\ req[p].format = "lines"
        /\ req[p].contentType = CtTrie
        /\ Decoder(p) = TrieDecoder

NamedByFormat(f) ==
    CASE f = "tree"  -> TreeDecoder
      [] f = "trie"  -> TrieDecoder
      [] f = "lines" -> LineDecoder

\* C6 as stated: a recognized `format` decides the decoder whatever the
\* Content-Type header is.
C6_FormatAlwaysWins ==
    \A p \in Procs :
        (Resolved(p) /\ req[p].format \in {"tree", "trie", "lines"}) =>
            Decoder(p) = NamedByFormat(req[p].format)

\* C6 amended: a recognized `format` decides the decoder unless a rule that
\* comes earlier matches the Content-Type header: the tree content type
\* selects the tree decoder over format=trie and format=lines, and the trie
\* content type selects the trie decoder over format=lines.
C6_FormatWinsUnlessEarlierRule ==
    \A p \in Procs :
        (Resolved(p) /\ req[p].format \in {"tree", "trie", "lines"}) =>
            LET f == req[p].format
                c == req[p].contentType
            IN  IF c = CtTree THEN Decoder(p) = TreeDecoder
                ELSE IF c = CtTrie /\ f = "lines" THEN Decoder(p) = TrieDecoder
                ELSE Decoder(p) = NamedByFormat(f)

\* format=trie with the tree content type resolves to the tree decoder
C6_Witness ==
    \E p \in Procs :
        /\ Resolved(p)
        /\ req[p].format = "trie"
        /\ req[p].contentType = CtTree
        /\ Decoder(p) = TreeDecoder

\* s is an optional sign followed by one or more decimal digits
WellFormedInt(s) ==
    LET digits == IF s # <<>> /\ s[1] \in {"+", "-"} THEN Tail(s) ELSE s
    IN  /\ digits # <<>>
        /\ \A i \in 1 .. Len(digits) : digits[i] \in DigitChars

\* the well-formed sample rates of SrEdges that lie outside the 64-bit int
OutOfRange ==
    { <<"9", "2", "2", "3", "3", "7", "2", "0", "3", "6", "8", "5", "4", "7",
        "7", "5", "8", "0", "8">>,
      <<"1", "8", "4", "4", "6", "7", "4", "4", "0", "7", "3", "7", "0", "9",
        "5", "5", "1", "6", "1", "6">> }

Unparsable(s) == s # <<>> /\ (~WellFormedInt(s) \/ s \in OutOfRange)

NameOk(p) == req[p].name \in {"app.name", "web{env=prod}"}

\* C7: an absent sample rate, or one that does not parse as an integer,
\* resolves to the default and is no reason for an error: the resolver fails
\* only for the name, and with a good name the handler goes on to decode and
\* to submit the write with the default sample rate.
C7_MalformedSampleRateDefaults ==
    \A p \in Procs :
        (Resolved(p) /\ (req[p].sampleRate = <<>> \/ Unparsable(req[p].sampleRate))) =>
            /\ ip[p].sampleRate = U32(DefaultSampleRate)
            /\ NameOk(p) =>
                  /\ resp[p].writer # "writeInvalidParameterError"
                  /\ pc[p] \in {"get", "parse", "putbuf", "ingest", "stats", "stats_spy",
                                "stats_app"}
                       \/ (Returned(p) /\ Called(p, "parserFunc"))
                  /\ Called(p, "ingester.Put") =>
                        putInput[p].SampleRate = U32(DefaultSampleRate)

\* a request with sampleRate=x has been submitted to the ingester
C7_Witness ==
    \E p \in Procs :
        /\ req[p].sampleRate = <<"x">>
        /\ Called(p, "ingester.Put")
        /\ putInput[p].SampleRate = U32(DefaultSampleRate)

\* C8 as stated: the sample rate of every successfully resolved request,
\* and of every write submitted, is greater than zero.
C8_SampleRatePositive ==
    \A p \in Procs :
        /\ (Resolved(p) /\ err[p].nil /\ pc[p] = "get") =>
              ip[p].sampleRate # [hi |-> 0, lo |-> 0]
        /\ Called(p, "ingester.Put") =>
              putInput[p].SampleRate # [hi |-> 0, lo |-> 0]

\* the calls of a request that succeeds, in the order the handler makes them
CallOrder ==
    <<"ingestParamsFromRequest", "bufferPool.Get", "parserFunc",
      "bufferPool.Put", "ingester.Put", "statsInc(ingest)",
      "statsInc(ingest:spyName)", "appStats.Add">>

\* the handler has a buffer it has not released
Holding(p) == pc[p] \notin {"idle", "done"} /\ Gets(p) > Puts(p)

\* C9: the calls of a handler are an initial part of CallOrder, and a
\* handler that is building or submitting the write request, or bumping the
\* counters, holds no buffer.
C9_FixedOrder ==
    \A p \in Procs :
        /\ IsPrefix(trace[p], CallOrder)
        /\ pc[p] \in {"ingest", "stats", "stats_spy", "stats_app"} => ~Holding(p) /\ Puts(p) = 1

\* a handler has made every call of CallOrder
C9_Witness == \E p \in Procs : trace[p] = CallOrder /\ Returned(p)

\* C10: two handlers never hold the same buffer, a buffer a handler holds is
\* not in the pool, and no buffer is in the pool twice.
C10_ExclusiveBuffer ==
    /\ \A p, q \in Procs :
          (p # q /\ Holding(p) /\ Holding(q)) => tmpBuf[p] # tmpBuf[q]
    /\ \A p \in Procs : Holding(p) => pool[tmpBuf[p]] = 0
    /\ \A b \in Bufs : pool[b] <= 1

\* two handlers are about to decode at the same time, each with a buffer,
\* after an earlier request has come and gone
C10_Witness ==
    \E p, q \in Procs :
        /\ p # q
        /\ pc[p] = "parse" /\ pc[q] = "parse"
        /\ Holding(p) /\ Holding(q)
        /\ tmpBuf[p] # tmpBuf[q]
        /\ started = MaxRequests

====
